---- MODULE Spec2Model ----
(***************************************************************************)
(* Chat-turn orchestration of service/src/index.ts: the /chat-process      *)
(* streaming handler, the /chat-abort handler, the conversation store they *)
(* write to and the per-user cancellation registry they share.             *)
(***************************************************************************)
EXTENDS Integers, Sequences, FiniteSets, TLC

(* ---------------------------------------------------------------------- *)
(* Bounds                                                                  *)
(* ---------------------------------------------------------------------- *)
\* number of /chat-process requests in one behaviour
MaxProcs == 2
\* number of /chat-abort requests in one behaviour
MaxAborts == 1
\* partial events the backend may emit in one stream
MaxEvents == 2

\* /chat-abort requests of the behaviours that follow one streaming request
MaxIdleAborts == 2

\* number of /chat requests in one behaviour
MaxChats == 2

\* entries of the branch list of a turn whose response history is looked up
MaxBranches == 2

Procs == 1..MaxProcs
Aborts == 1..MaxAborts
IdleAborts == 1..MaxIdleAborts

(* ---------------------------------------------------------------------- *)
(* Values                                                                  *)
(* ---------------------------------------------------------------------- *)
\* JavaScript undefined / null for a string-valued field
Undefined == "undefined"

Users == {"u1", "u2"}

\* user.roles : u2 holds UserRole.Admin
Roles(u) == IF u = "u2" THEN {"Admin"} ELSE {"User"}

\* user.config.chatModel
ChatModel(u) == "gpt-3.5-turbo"

\* (caller, roomId) of a request: the caller's own room, or room 3 nobody owns
Targets == {<<"u1", 1>>, <<"u1", 3>>, <<"u2", 2>>}

\* the rooms of the store: roomId -> owner and system prompt
Rooms == [r \in {1, 2} |-> IF r = 1 THEN [userId |-> "u1", prompt |-> "room-prompt"]
                                     ELSE [userId |-> "u2", prompt |-> ""]]

\* the one sequence id (uuid) a request body carries
Uuids == {1}

\* req.body.prompt of every request
BodyPrompt == "2+2?"

\* req.body.options of every request (ChatContext)
BodyOptions == [parentMessageId |-> "pm0"]

\* usage of a turn: absent, or the three token counters
NoUsage == [present |-> FALSE, prompt_tokens |-> 0, completion_tokens |-> 0, total_tokens |-> 0]
SomeUsage == [present |-> TRUE, prompt_tokens |-> 5, completion_tokens |-> 3, total_tokens |-> 8]

\* options of a turn row (ChatOptions)
NewOptions(o) ==
    [parentMessageId |-> o.parentMessageId, messageId |-> Undefined,
     conversationId |-> Undefined, usage |-> NoUsage]

\* message === null : getChat found no row
NullChat ==
    [id |-> 0, roomId |-> 0, uuid |-> 0, prompt |-> Undefined, response |-> Undefined,
     options |-> NewOptions([parentMessageId |-> Undefined]), previousResponse |-> <<>>]

\* a turn that was completed before the server started
OldChat ==
    [id |-> 1, roomId |-> 1, uuid |-> 1, prompt |-> "2+2?", response |-> "2+2=4",
     options |-> [parentMessageId |-> "pm0", messageId |-> "bm0",
                  conversationId |-> "bc0", usage |-> SomeUsage],
     previousResponse |-> <<>>]

\* credential pools of the deployment (KeyConfig rows)
KeyAll == [key |-> "k1", userRoles |-> {"User", "Admin"}, chatModels |-> {"gpt-3.5-turbo"}, enabled |-> TRUE]
KeyAdmin == [key |-> "k2", userRoles |-> {"Admin"}, chatModels |-> {"gpt-3.5-turbo"}, enabled |-> TRUE]
KeyOff == [key |-> "k3", userRoles |-> {"User", "Admin"}, chatModels |-> {"gpt-3.5-turbo"}, enabled |-> FALSE]
KeyGpt4 == [key |-> "k4", userRoles |-> {"User", "Admin"}, chatModels |-> {"gpt-4"}, enabled |-> TRUE]

\* the deployments a behaviour may start in: config.auditConfig and the key pool
Deployments ==
    {[auditConfig |-> [enabled |-> FALSE, customizeEnabled |-> FALSE],
      apiKeys |-> {KeyAll, KeyOff}],
     [auditConfig |-> [enabled |-> TRUE, customizeEnabled |-> FALSE],
      apiKeys |-> {KeyAdmin, KeyOff, KeyGpt4}],
     [auditConfig |-> [enabled |-> FALSE, customizeEnabled |-> TRUE],
      apiKeys |-> {KeyAll, KeyOff}]}

\* the k-th partial event (ChatMessage) of the stream of request p
PartialEvent(p, k) ==
    [defined |-> TRUE, id |-> "bm" \o ToString(p), conversationId |-> "bc" \o ToString(p),
     text |-> "t" \o ToString(p) \o "." \o ToString(k), usage |-> NoUsage]

\* the final ChatMessage of the stream of request p (result.data)
FinalResult(p, u) ==
    [defined |-> TRUE, id |-> "bm" \o ToString(p), conversationId |-> "bc" \o ToString(p),
     text |-> "t" \o ToString(p) \o ".end", usage |-> u]

\* lastResponse === undefined
NoResponse ==
    [defined |-> FALSE, id |-> Undefined, conversationId |-> Undefined, text |-> Undefined, usage |-> NoUsage]

\* body of a /chat-abort request
AbortBody == [text |-> "stopped", messageId |-> "m1", conversationId |-> "c1"]

\* the message of an error the backend adapter reports for request p
AdapterMessage(p) == "err" \o ToString(p)

\* lastResponse = { text: result.message }
MessageOnly(m) ==
    [defined |-> TRUE, id |-> Undefined, conversationId |-> Undefined, text |-> m, usage |-> NoUsage]

\* req.body.systemMessage of every request
BodySystemMessage == "caller-prompt"

\* the message of an error the store reports
StoreMessage == "store unreachable"

\* the ChatMessage chatReply resolves the k-th /chat request with (response.data)
ChatResult(k, u) ==
    [defined |-> TRUE, id |-> "cm" \o ToString(k), conversationId |-> "cc" \o ToString(k),
     text |-> "c" \o ToString(k) \o ".end", usage |-> u]

\* a usage object where the store expects a conversation id
UsageAsConversationId(u) ==
    IF u.present
    THEN "{" \o ToString(u.prompt_tokens) \o "," \o ToString(u.completion_tokens)
             \o "," \o ToString(u.total_tokens) \o "}"
    ELSE Undefined

\* the account names of the login requests; RootUser is process.env.ROOT_USER
Emails == {"a@x.io", "root@x.io"}
RootUser == "root@x.io"

\* the user names a request body may carry: the emails and one name that is no email
LoginNames == Emails \cup {"bob"}

\* the passwords a request body may carry
Passwords == {"p1", "p2"}

\* md5(password): the digest kept in place of the password
md5(pw) == "md5(" \o pw \o ")"

\* the values of Status an account may hold
UserStatuses == {"Normal", "Deleted", "PreVerify", "AdminVerify"}

\* getUser(username) === null
NoAccount == [exists |-> FALSE, status |-> "none", password |-> Undefined]

\* the answers a turn of the response-history lookups may hold
Answers == {"A1", "A2"}

\* a turn's answer t with its options, as a branch entry holds it
BranchEntry(t) ==
    [response |-> t,
     options |-> [parentMessageId |-> "pm0", messageId |-> "id-" \o t,
                  conversationId |-> "cv-" \o t, usage |-> NoUsage]]

\* branch lists of up to MaxBranches entries, oldest first
BranchLists ==
    UNION {{[i \in 1..n |-> BranchEntry(f[i])] : f \in [1..n -> Answers]} : n \in 0..MaxBranches}

\* the rows getChat may answer a response-history lookup with: hasPrevious is
\* previousResponse !== undefined, which a turn has once a regeneration stored a list
HistoryRows ==
    {c \in [uuid : {1}, prompt : {BodyPrompt}, response : Answers,
            options : {BranchEntry(r).options : r \in Answers},
            hasPrevious : BOOLEAN, previousResponse : BranchLists] :
        /\ c.options = BranchEntry(c.response).options
        /\ c.hasPrevious \/ c.previousResponse = <<>>}

(* ---------------------------------------------------------------------- *)
(* Collaborators outside index.ts: store, credential pool, registry        *)
(* ---------------------------------------------------------------------- *)
\* getChatRoom(userId, roomId): the room, when it exists and belongs to userId
RoomFound(userId, roomId) == roomId \in DOMAIN Rooms /\ Rooms[roomId].userId = userId

\* isNotEmptyString(room.prompt)
isNotEmptyString(s) == s # "" /\ s # Undefined

\* getChat(roomId, uuid): the first row of the turn, or null
getChat(cs, roomId, uuid) ==
    LET hits == {i \in 1..Len(cs) : cs[i].roomId = roomId /\ cs[i].uuid = uuid}
    IN  IF hits = {} THEN NullChat
        ELSE cs[CHOOSE i \in hits : \A j \in hits : i <= j]

\* insertChat(uuid, prompt, roomId, options): the store with the new row appended
insertChat(cs, uuid, prompt, roomId, options) ==
    Append(cs, [id |-> Len(cs) + 1, roomId |-> roomId, uuid |-> uuid, prompt |-> prompt,
                response |-> Undefined, options |-> NewOptions(options),
                previousResponse |-> <<>>])

\* updateChat(chatId, response, messageId, conversationId, usage, previousResponse?):
\* one atomic update of the row chatId; the branch list is written only when given
updateChat(cs, chatId, response, messageId, conversationId, usage, hasPrev, prev) ==
    [i \in 1..Len(cs) |->
        IF cs[i].id # chatId THEN cs[i]
        ELSE [cs[i] EXCEPT !.response = response,
                           !.options.messageId = messageId,
                           !.options.conversationId = conversationId,
                           !.options.usage = usage,
                           !.previousResponse = IF hasPrev THEN prev ELSE @]]

\* insertChatUsage(userId, roomId, chatId, messageId, usage)
insertChatUsage(us, userId, roomId, chatId, messageId, usage) ==
    Append(us, [userId |-> userId, roomId |-> roomId, chatId |-> chatId,
                messageId |-> messageId, usage |-> usage])

\* isEmail(username)
isEmail(name) == name \in Emails

\* createUser(username, password, isRoot): the root account needs no verification
createUser(acc, name, password, isRoot) ==
    [acc EXCEPT ![name] = [exists |-> TRUE,
                           status |-> IF isRoot THEN "Normal" ELSE "PreVerify",
                           password |-> password]]

\* verifyUser(username, status) and updateUserStatus(userId, status): the
\* account, when there is one, takes the status
verifyUser(acc, name, status) ==
    [acc EXCEPT ![name] = IF @.exists THEN [@ EXCEPT !.status = status] ELSE @]

\* hasAnyRole(userRoles, roles)
hasAnyRole(userRoles, roles) == userRoles \cap roles # {}

\* the credentials getRandomApiKey(user, chatModel) may return
EligibleKeys(keys, u) ==
    {k \in keys : k.enabled /\ ChatModel(u) \in k.chatModels /\ hasAnyRole(k.userRoles, Roles(u))}

\* mutant of Register: the new entry is pushed beside the earlier ones
RegisterPush(reg, userId, handle, messageId) ==
    reg \cup {[userId |-> userId, handle |-> handle, messageId |-> messageId]}

\* register: a fresh entry for userId replaces every earlier entry of userId
Register(reg, userId, handle, messageId) ==
    {e \in reg : e.userId # userId}
        \cup {[userId |-> userId, handle |-> handle, messageId |-> messageId]}

\* the handles register(userId) invalidates
Replaced(reg, userId) == {e.handle : e \in {x \in reg : x.userId = userId}}

\* mutant of Deregister: the entry of userId is removed whoever holds it
DeregisterUser(reg, userId, handle) == {e \in reg : e.userId # userId}

\* deregister: removes the entry of userId only while it still holds this handle
Deregister(reg, userId, handle) ==
    {e \in reg : ~(e.userId = userId /\ e.handle = handle)}

\* abortChatProcess(userId): the id of the turn that was signalled, 0 when none is in flight
AbortedMessageId(reg, userId) ==
    LET es == {e \in reg : e.userId = userId}
    IN  IF es = {} THEN 0 ELSE (CHOOSE e \in es : TRUE).messageId

(* ---------------------------------------------------------------------- *)
(* State                                                                   *)
(* ---------------------------------------------------------------------- *)
VARIABLES
    chats,          \* the turn rows of the store, in insertion order
    usages,         \* the usage rows of the store, in insertion order
    registry,       \* cancellation registry: entries [userId, handle, messageId]
    signaled,       \* handles whose abort signal has been raised
    apiKeys,        \* the credential pool
    auditConfig,    \* config.auditConfig
    pc,             \* position of each /chat-process handler
    req,            \* req.body and req.headers.userId of each /chat-process request
    room,           \* room != null
    systemMessage,  \* systemMessage after the room lookup
    message,        \* the turn row the handler holds
    key,            \* the credential getRandomApiKey returned
    called,         \* the arguments chatReplyProcess was invoked with
    emitted,        \* partial events the backend has emitted to the handler
    firstChunk,     \* firstChunk
    lastResponse,   \* lastResponse
    result,         \* result: status the adapter reported, data after lines 447-451
    out,            \* what was written to res, in order
    ended,          \* res.end() or res.send() has closed the connection
    audited,        \* what containsSensitiveWords answered: "none" while it was not asked
    updated,        \* updateChat calls each /chat-process handler has completed
    apc,            \* position of each /chat-abort handler
    areq,           \* req.headers.userId of each /chat-abort request
    msgId,          \* msgId of each /chat-abort handler
    ares,           \* the response of each /chat-abort handler
    hchat,          \* the row getChat answers a /chat-response-history lookup with
    hreq,           \* req.query of the last /chat-response-history request
    hres,           \* the response of the last /chat-response-history request
    creq,           \* req.body of the last /chat request and what chatReply answered it
    cmessage,       \* the turn row the last /chat request held
    cres,           \* the response of the last /chat request
    cserved,        \* /chat requests served
    accounts,       \* the user accounts of the store, by email
    siteConfig,     \* config.siteConfig: registerEnabled, registerReview
    tokens,         \* the accounts a login token was issued for
    lreq            \* the last account request and its response

storeVars == <<chats, usages>>
regVars == <<registry, signaled>>
cfgVars == <<apiKeys, auditConfig>>
procVars == <<pc, req, room, systemMessage, message, key, called, emitted, firstChunk,
              lastResponse, result, out, ended, audited, updated>>
abortVars == <<apc, areq, msgId, ares>>
histVars == <<hchat, hreq, hres>>
chatVars == <<creq, cmessage, cres, cserved>>
loginVars == <<accounts, siteConfig, tokens, lreq>>
otherVars == <<histVars, chatVars, loginVars>>
vars == <<storeVars, regVars, cfgVars, procVars, abortVars, otherVars>>

NoReq == [userId |-> Undefined, roomId |-> 0, uuid |-> 0, regenerate |-> FALSE, prompt |-> Undefined]
NoCall == [invoked |-> FALSE, message |-> Undefined, systemMessage |-> Undefined,
           key |-> Undefined, userId |-> Undefined, messageId |-> 0]
NoResult == [status |-> "none", data |-> NoResponse]
NoHistoryReq == [index |-> 0, roomKnown |-> FALSE]
NoHistoryRes == [status |-> "none", data |-> "none", text |-> Undefined,
                 responseCount |-> 0, parentMessageId |-> Undefined]

\* no /chat-response-history request has been made
HistoryIdle ==
    /\ hchat = [uuid |-> 1, prompt |-> BodyPrompt, response |-> "A1",
                options |-> BranchEntry("A1").options,
                hasPrevious |-> FALSE, previousResponse |-> <<>>]
    /\ hreq = NoHistoryReq
    /\ hres = NoHistoryRes

NoChatReq == [userId |-> Undefined, roomId |-> 0, uuid |-> 0, regenerate |-> FALSE,
              status |-> "none", data |-> NoResponse, topUsage |-> FALSE]

\* no /chat request has been made
ChatIdle ==
    /\ creq = NoChatReq
    /\ cmessage = NullChat
    /\ cres = "none"
    /\ cserved = 0

NoLoginReq == [kind |-> "none", username |-> Undefined, password |-> Undefined,
               status |-> "none", response |-> "none"]

\* no account exists and no account request has been made
LoginIdle ==
    /\ accounts = [e \in Emails |-> NoAccount]
    /\ siteConfig = [registerEnabled |-> TRUE, registerReview |-> FALSE]
    /\ tokens = {}
    /\ lreq = NoLoginReq

\* no /chat-process and no /chat-abort request has been made
ProcessIdle ==
    /\ chats = <<OldChat>>
    /\ usages = <<>>
    /\ registry = {}
    /\ signaled = {}
    /\ apiKeys = {KeyAll, KeyOff}
    /\ auditConfig = [enabled |-> FALSE, customizeEnabled |-> FALSE]
    /\ pc = [p \in Procs |-> "idle"]
    /\ req = [p \in Procs |-> NoReq]
    /\ room = [p \in Procs |-> FALSE]
    /\ systemMessage = [p \in Procs |-> Undefined]
    /\ message = [p \in Procs |-> NullChat]
    /\ key = [p \in Procs |-> Undefined]
    /\ called = [p \in Procs |-> NoCall]
    /\ emitted = [p \in Procs |-> 0]
    /\ firstChunk = [p \in Procs |-> TRUE]
    /\ lastResponse = [p \in Procs |-> NoResponse]
    /\ result = [p \in Procs |-> NoResult]
    /\ out = [p \in Procs |-> <<>>]
    /\ ended = [p \in Procs |-> FALSE]
    /\ audited = [p \in Procs |-> "none"]
    /\ updated = [p \in Procs |-> 0]
    /\ apc = [a \in Aborts |-> "idle"]
    /\ areq = [a \in Aborts |-> Undefined]
    /\ msgId = [a \in Aborts |-> 0]
    /\ ares = [a \in Aborts |-> "none"]

Init ==
    /\ chats = <<OldChat>>
    /\ usages = <<>>
    /\ registry = {}
    /\ signaled = {}
    /\ \E d \in Deployments : apiKeys = d.apiKeys /\ auditConfig = d.auditConfig
    /\ pc = [p \in Procs |-> "idle"]
    /\ req = [p \in Procs |-> NoReq]
    /\ room = [p \in Procs |-> FALSE]
    /\ systemMessage = [p \in Procs |-> Undefined]
    /\ message = [p \in Procs |-> NullChat]
    /\ key = [p \in Procs |-> Undefined]
    /\ called = [p \in Procs |-> NoCall]
    /\ emitted = [p \in Procs |-> 0]
    /\ firstChunk = [p \in Procs |-> TRUE]
    /\ lastResponse = [p \in Procs |-> NoResponse]
    /\ result = [p \in Procs |-> NoResult]
    /\ out = [p \in Procs |-> <<>>]
    /\ ended = [p \in Procs |-> FALSE]
    /\ audited = [p \in Procs |-> "none"]
    /\ updated = [p \in Procs |-> 0]
    /\ apc = [a \in Aborts |-> "idle"]
    /\ areq = [a \in Aborts |-> Undefined]
    /\ msgId = [a \in Aborts |-> 0]
    /\ ares = [a \in Aborts |-> "none"]
    /\ HistoryIdle
    /\ ChatIdle
    /\ LoginIdle

(* ---------------------------------------------------------------------- *)
(* /chat-process                                                           *)
(* ---------------------------------------------------------------------- *)
\* mutant of AuditAsked: the caller's roles are not looked at
AuditAskedOfAll(cfg, u) == cfg.enabled \/ cfg.customizeEnabled

\* lines 396-397: containsSensitiveWords is awaited only under an enabled policy
\* and for a caller who is no admin
AuditAsked(cfg, u) ==
    /\ cfg.enabled \/ cfg.customizeEnabled
    /\ "Admin" \notin Roles(u)

\* mutant of ResolveSystemMessage: the caller's system message wins
ResolveCallerFirst(u, r) ==
    IF isNotEmptyString(BodySystemMessage) THEN BodySystemMessage
    ELSE IF RoomFound(u, r) THEN Rooms[r].prompt ELSE BodySystemMessage

\* systemMessage after lines 387-388
ResolveSystemMessage(u, r) ==
    IF RoomFound(u, r) /\ isNotEmptyString(Rooms[r].prompt) THEN Rooms[r].prompt
    ELSE BodySystemMessage

\* the catch block of line 442 followed by res.end() of line 445
CatchAndEnd(p, msg) ==
    /\ out' = [out EXCEPT ![p] = Append(@, [kind |-> "error", nl |-> FALSE, text |-> msg])]
    /\ ended' = [ended EXCEPT ![p] = TRUE]

\* a request arrives: room lookup (384-388), config and user lookup, audit (393-401)
Start(p) ==
    /\ pc[p] = "idle"
    /\ IF p = 1 THEN TRUE ELSE pc[p - 1] # "idle"
    /\ \E t \in Targets, i \in Uuids, g \in BOOLEAN,
          fault \in {"none", "getChatRoom", "getUserById"},
          verdict \in {"none", "clean", "hit"} :
      LET u == t[1]
          r == t[2]
          pr == BodyPrompt
      IN
        /\ verdict # "none" <=> (fault = "none" /\ AuditAsked(auditConfig, u))
        /\ audited' = [audited EXCEPT ![p] = verdict]
        /\ req' = [req EXCEPT ![p] = [userId |-> u, roomId |-> r, uuid |-> i,
                                      regenerate |-> g, prompt |-> pr]]
        /\ IF fault = "getChatRoom"
           THEN \* the await of line 384 rejects outside the try block
                /\ pc' = [pc EXCEPT ![p] = "rejected"]
                /\ UNCHANGED <<room, systemMessage, out, ended>>
           ELSE /\ room' = [room EXCEPT ![p] = RoomFound(u, r)]
                /\ systemMessage' = [systemMessage EXCEPT ![p] = ResolveSystemMessage(u, r)]
                /\ IF fault = "getUserById"
                   THEN /\ CatchAndEnd(p, "lookup failed")
                        /\ pc' = [pc EXCEPT ![p] = "done"]
                   ELSE IF verdict = "hit"
                   THEN /\ out' = [out EXCEPT ![p] =
                                <<[kind |-> "send", nl |-> FALSE, text |-> "Contains sensitive words"]>>]
                        /\ ended' = [ended EXCEPT ![p] = TRUE]
                        /\ pc' = [pc EXCEPT ![p] = "done"]
                   ELSE /\ pc' = [pc EXCEPT ![p] = "getChat"]
                        /\ UNCHANGED <<out, ended>>
    /\ UNCHANGED <<storeVars, regVars, cfgVars, otherVars, abortVars>>
    /\ UNCHANGED <<message, key, called, emitted, firstChunk, lastResponse, result, updated>>

\* mutant of GetMessage: a regeneration of a missing turn inserts the turn
GetMessageUpserts(p) ==
    /\ pc[p] = "getChat"
    /\ IF req[p].regenerate /\ getChat(chats, req[p].roomId, req[p].uuid).id # 0
       THEN /\ message' = [message EXCEPT ![p] = getChat(chats, req[p].roomId, req[p].uuid)]
            /\ UNCHANGED chats
       ELSE /\ chats' = insertChat(chats, req[p].uuid, req[p].prompt, req[p].roomId, BodyOptions)
            /\ message' = [message EXCEPT ![p] = chats'[Len(chats')]]
    /\ pc' = [pc EXCEPT ![p] = "getKey"]
    /\ UNCHANGED <<usages, regVars, cfgVars, otherVars, abortVars>>
    /\ UNCHANGED <<req, room, systemMessage, key, called, emitted, firstChunk,
                   lastResponse, result, out, ended, audited, updated>>

\* mutant of GetMessage: the new turn is built in memory and not yet stored
GetMessageUnsaved(p) ==
    /\ pc[p] = "getChat"
    /\ message' = [message EXCEPT ![p] =
            IF req[p].regenerate THEN getChat(chats, req[p].roomId, req[p].uuid)
            ELSE insertChat(chats, req[p].uuid, req[p].prompt, req[p].roomId,
                            BodyOptions)[Len(chats) + 1]]
    /\ UNCHANGED chats
    /\ pc' = [pc EXCEPT ![p] = "getKey"]
    /\ UNCHANGED <<usages, regVars, cfgVars, otherVars, abortVars>>
    /\ UNCHANGED <<req, room, systemMessage, key, called, emitted, firstChunk,
                   lastResponse, result, out, ended, audited, updated>>

\* lines 403-405: read the turn to regenerate, or insert the new turn
GetMessage(p) ==
    /\ pc[p] = "getChat"
    /\ IF req[p].regenerate
       THEN /\ message' = [message EXCEPT ![p] = getChat(chats, req[p].roomId, req[p].uuid)]
            /\ UNCHANGED chats
       ELSE /\ chats' = insertChat(chats, req[p].uuid, req[p].prompt, req[p].roomId, BodyOptions)
            /\ message' = [message EXCEPT ![p] = chats'[Len(chats')]]
    /\ pc' = [pc EXCEPT ![p] = "getKey"]
    /\ UNCHANGED <<usages, regVars, cfgVars, otherVars, abortVars>>
    /\ UNCHANGED <<req, room, systemMessage, key, called, emitted, firstChunk,
                   lastResponse, result, out, ended, audited, updated>>

\* lines 447-455 when nothing was streamed: result.data is undefined, nothing is written
EndWithoutResult(p, msg) ==
    /\ CatchAndEnd(p, msg)
    /\ pc' = [pc EXCEPT ![p] = "done"]
    /\ UNCHANGED <<storeVars, regVars, cfgVars, otherVars, abortVars>>
    /\ UNCHANGED <<req, room, systemMessage, message, called, emitted, firstChunk,
                   lastResponse, result, audited, updated>>

\* line 434 finds no eligible credential
NoKey(p) ==
    /\ pc[p] = "getKey"
    /\ EligibleKeys(apiKeys, req[p].userId) = {}
    /\ UNCHANGED key
    /\ EndWithoutResult(p, "No available configuration")

\* line 436 dereferences a null message
NoMessage(p) ==
    /\ pc[p] = "getKey"
    /\ message[p].id = 0
    /\ \E k \in EligibleKeys(apiKeys, req[p].userId) : key' = [key EXCEPT ![p] = k.key]
    /\ EndWithoutResult(p, "Cannot read properties of null")

\* mutant of CallBackend: any credential of the pool serves when none is eligible
CallBackendAnyKey(p) ==
    /\ pc[p] = "getKey"
    /\ message[p].id # 0
    /\ \E k \in apiKeys :
        /\ key' = [key EXCEPT ![p] = k.key]
        /\ called' = [called EXCEPT ![p] =
                [invoked |-> TRUE, message |-> req[p].prompt,
                 systemMessage |-> systemMessage[p], key |-> k.key,
                 userId |-> req[p].userId, messageId |-> message[p].id]]
    /\ registry' = Register(registry, req[p].userId, p, message[p].id)
    /\ signaled' = signaled \cup Replaced(registry, req[p].userId)
    /\ pc' = [pc EXCEPT ![p] = "streaming"]
    /\ UNCHANGED <<storeVars, cfgVars, otherVars, abortVars>>
    /\ UNCHANGED <<req, room, systemMessage, message, emitted, firstChunk,
                   lastResponse, result, out, ended, audited, updated>>

\* lines 407-437: chatReplyProcess is invoked and registers the turn
CallBackend(p) ==
    /\ pc[p] = "getKey"
    /\ message[p].id # 0
    /\ \E k \in EligibleKeys(apiKeys, req[p].userId) :
        /\ key' = [key EXCEPT ![p] = k.key]
        /\ called' = [called EXCEPT ![p] =
                [invoked |-> TRUE, message |-> req[p].prompt,
                 systemMessage |-> systemMessage[p], key |-> k.key,
                 userId |-> req[p].userId, messageId |-> message[p].id]]
    /\ registry' = Register(registry, req[p].userId, p, message[p].id)
    /\ signaled' = signaled \cup Replaced(registry, req[p].userId)
    /\ pc' = [pc EXCEPT ![p] = "streaming"]
    /\ UNCHANGED <<storeVars, cfgVars, otherVars, abortVars>>
    /\ UNCHANGED <<req, room, systemMessage, message, emitted, firstChunk,
                   lastResponse, result, out, ended, audited, updated>>

\* mutant of Partial: events are delivered and relayed after the abort signal
PartialUnchecked(p) ==
    /\ pc[p] = "streaming"
    /\ emitted[p] < MaxEvents
    /\ emitted' = [emitted EXCEPT ![p] = @ + 1]
    /\ lastResponse' = [lastResponse EXCEPT ![p] = PartialEvent(p, emitted[p] + 1)]
    /\ out' = [out EXCEPT ![p] = Append(@, [kind |-> "partial", nl |-> ~firstChunk[p],
                                             text |-> PartialEvent(p, emitted[p] + 1).text])]
    /\ firstChunk' = [firstChunk EXCEPT ![p] = FALSE]
    /\ UNCHANGED <<storeVars, regVars, cfgVars, otherVars, abortVars>>
    /\ UNCHANGED <<pc, req, room, systemMessage, message, key, called, result, ended, audited, updated>>

\* lines 410-429: the process callback relays one partial event; the backend
\* adapter delivers none once the turn's abort signal is raised
Partial(p) ==
    /\ pc[p] = "streaming"
    /\ p \notin signaled
    /\ emitted[p] < MaxEvents
    /\ emitted' = [emitted EXCEPT ![p] = @ + 1]
    /\ lastResponse' = [lastResponse EXCEPT ![p] = PartialEvent(p, emitted[p] + 1)]
    /\ out' = [out EXCEPT ![p] = Append(@, [kind |-> "partial", nl |-> ~firstChunk[p],
                                             text |-> PartialEvent(p, emitted[p] + 1).text])]
    /\ firstChunk' = [firstChunk EXCEPT ![p] = FALSE]
    /\ UNCHANGED <<storeVars, regVars, cfgVars, otherVars, abortVars>>
    /\ UNCHANGED <<pc, req, room, systemMessage, message, key, called, result, ended, audited, updated>>

\* mutant of Finalize: the finalizer writes even when result.data is undefined
FinalizeAlwaysWrites(p, status, data) ==
    /\ ended' = [ended EXCEPT ![p] = TRUE]
    /\ lastResponse' = [lastResponse EXCEPT ![p] = IF status = "Success" THEN @ ELSE data]
    /\ result' = [result EXCEPT ![p] = [status |-> status, data |-> data]]
    /\ pc' = [pc EXCEPT ![p] = "updateChat"]
    /\ registry' = Deregister(registry, req[p].userId, p)
    /\ UNCHANGED <<storeVars, signaled, cfgVars, otherVars, abortVars>>
    /\ UNCHANGED <<req, room, systemMessage, message, key, called, emitted, firstChunk, audited, updated>>

\* lines 444-455: res.end(), then the result the finalizer will persist;
\* chatReplyProcess has settled by then and has released its registry entry
Finalize(p, status, data) ==
    /\ ended' = [ended EXCEPT ![p] = TRUE]
    /\ lastResponse' = [lastResponse EXCEPT ![p] = IF status = "Success" THEN @ ELSE data]
    /\ result' = [result EXCEPT ![p] = [status |-> status, data |-> data]]
    /\ pc' = [pc EXCEPT ![p] = IF data.defined THEN "updateChat" ELSE "done"]
    /\ registry' = Deregister(registry, req[p].userId, p)
    /\ UNCHANGED <<storeVars, signaled, cfgVars, otherVars, abortVars>>
    /\ UNCHANGED <<req, room, systemMessage, message, key, called, emitted, firstChunk, audited, updated>>

\* chatReplyProcess resolves with status Success (never after the abort signal);
\* line 439 writes the whole response
Success(p) ==
    /\ pc[p] = "streaming"
    /\ p \notin signaled
    /\ \E u \in {NoUsage, SomeUsage} :
        /\ out' = [out EXCEPT ![p] = Append(@, [kind |-> "final", nl |-> TRUE,
                                                 text |-> FinalResult(p, u).text])]
        /\ Finalize(p, "Success", FinalResult(p, u))

\* mutant of Throw: the error message is persisted in place of the last partial event
ThrowPersistsMessage(p) ==
    /\ pc[p] = "streaming"
    /\ out' = [out EXCEPT ![p] = Append(@, [kind |-> "error", nl |-> FALSE,
                                             text |-> AdapterMessage(p)])]
    /\ Finalize(p, "thrown", MessageOnly(AdapterMessage(p)))

\* chatReplyProcess rejects (backend error, timeout or abort signal); line 442
Throw(p) ==
    /\ pc[p] = "streaming"
    /\ out' = [out EXCEPT ![p] = Append(@, [kind |-> "error", nl |-> FALSE,
                                             text |-> AdapterMessage(p)])]
    /\ Finalize(p, "thrown", lastResponse[p])

\* chatReplyProcess resolves with a status other than Success (a signalled
\* stream ends by rejecting, never by a returned status); lines 439, 448-450
Fail(p) ==
    /\ pc[p] = "streaming"
    /\ p \notin signaled
    /\ out' = [out EXCEPT ![p] = Append(@, [kind |-> "null", nl |-> TRUE, text |-> Undefined])]
    /\ Finalize(p, "Fail", MessageOnly(AdapterMessage(p)))

\* the branch list lines 458-459 build from the row the handler holds
PushPrevious(m) ==
    Append(m.previousResponse, [response |-> m.response, options |-> m.options])

\* mutant of KeepsBranch: every regeneration pushes a branch entry
KeepsBranchAlways(g, m) == g

\* line 457
KeepsBranch(g, m) == g /\ isNotEmptyString(m.options.messageId)

\* mutant of UpdateChat: the update is addressed to the first row of the turn's room
UpdateChatFirstRow(p) ==
    /\ pc[p] = "updateChat"
    /\ LET d == result[p].data
           m == message[p]
       IN  /\ chats' = IF KeepsBranch(req[p].regenerate, m)
                       THEN updateChat(chats, 1, d.text, d.id, d.conversationId, d.usage,
                                       TRUE, PushPrevious(m))
                       ELSE updateChat(chats, 1, d.text, d.id, d.conversationId, d.usage,
                                       FALSE, <<>>)
           /\ pc' = [pc EXCEPT ![p] = IF d.usage.present THEN "insertChatUsage" ELSE "done"]
    /\ updated' = [updated EXCEPT ![p] = @ + 1]
    /\ UNCHANGED <<usages, regVars, cfgVars, otherVars, abortVars>>
    /\ UNCHANGED <<req, room, systemMessage, message, key, called, emitted, firstChunk,
                   lastResponse, result, out, ended, audited>>

\* mutant of UpdateChat: the usage row is inserted whatever the result carries
UpdateChatThenUsage(p) ==
    /\ pc[p] = "updateChat"
    /\ LET d == result[p].data
           m == message[p]
       IN  /\ chats' = IF KeepsBranch(req[p].regenerate, m)
                       THEN updateChat(chats, m.id, d.text, d.id, d.conversationId, d.usage,
                                       TRUE, PushPrevious(m))
                       ELSE updateChat(chats, m.id, d.text, d.id, d.conversationId, d.usage,
                                       FALSE, <<>>)
           /\ pc' = [pc EXCEPT ![p] = "insertChatUsage"]
    /\ updated' = [updated EXCEPT ![p] = @ + 1]
    /\ UNCHANGED <<usages, regVars, cfgVars, otherVars, abortVars>>
    /\ UNCHANGED <<req, room, systemMessage, message, key, called, emitted, firstChunk,
                   lastResponse, result, out, ended, audited>>

\* lines 457-473: the terminal update of the turn row
UpdateChat(p) ==
    /\ pc[p] = "updateChat"
    /\ LET d == result[p].data
           m == message[p]
       IN  /\ chats' = IF KeepsBranch(req[p].regenerate, m)
                       THEN updateChat(chats, m.id, d.text, d.id, d.conversationId, d.usage,
                                       TRUE, PushPrevious(m))
                       ELSE updateChat(chats, m.id, d.text, d.id, d.conversationId, d.usage,
                                       FALSE, <<>>)
           /\ pc' = [pc EXCEPT ![p] = IF d.usage.present THEN "insertChatUsage" ELSE "done"]
    /\ updated' = [updated EXCEPT ![p] = @ + 1]
    /\ UNCHANGED <<usages, regVars, cfgVars, otherVars, abortVars>>
    /\ UNCHANGED <<req, room, systemMessage, message, key, called, emitted, firstChunk,
                   lastResponse, result, out, ended, audited>>

\* lines 475-481: the usage row
InsertUsage(p) ==
    /\ pc[p] = "insertChatUsage"
    /\ usages' = insertChatUsage(usages, req[p].userId, req[p].roomId, message[p].id,
                                 result[p].data.id, result[p].data.usage)
    /\ pc' = [pc EXCEPT ![p] = "done"]
    /\ UNCHANGED <<chats, regVars, cfgVars, otherVars, abortVars>>
    /\ UNCHANGED <<req, room, systemMessage, message, key, called, emitted, firstChunk,
                   lastResponse, result, out, ended, audited, updated>>

\* lines 460-473 and 483-485: updateChat rejects; the catch block logs the error
UpdateChatFails(p) ==
    /\ pc[p] = "updateChat"
    /\ pc' = [pc EXCEPT ![p] = "logged"]
    /\ UNCHANGED <<storeVars, regVars, cfgVars, otherVars, abortVars>>
    /\ UNCHANGED <<req, room, systemMessage, message, key, called, emitted, firstChunk,
                   lastResponse, result, out, ended, audited, updated>>

\* lines 476-485: insertChatUsage rejects; the catch block logs the error
InsertUsageFails(p) ==
    /\ pc[p] = "insertChatUsage"
    /\ pc' = [pc EXCEPT ![p] = "logged"]
    /\ UNCHANGED <<storeVars, regVars, cfgVars, otherVars, abortVars>>
    /\ UNCHANGED <<req, room, systemMessage, message, key, called, emitted, firstChunk,
                   lastResponse, result, out, ended, audited, updated>>

(* ---------------------------------------------------------------------- *)
(* /chat-abort                                                             *)
(* ---------------------------------------------------------------------- *)
\* mutant of AbortStart: the turn of any user in flight is signalled
AbortStartAnyUser(a) ==
    /\ apc[a] = "idle"
    /\ IF a = 1 THEN TRUE ELSE apc[a - 1] # "idle"
    /\ \E u \in Users :
        /\ areq' = [areq EXCEPT ![a] = u]
        /\ msgId' = [msgId EXCEPT ![a] =
                IF registry = {} THEN 0 ELSE (CHOOSE e \in registry : TRUE).messageId]
        /\ signaled' = signaled \cup {e.handle : e \in registry}
    /\ apc' = [apc EXCEPT ![a] = "updateChat"]
    /\ UNCHANGED <<storeVars, registry, cfgVars, otherVars, procVars, ares>>

\* lines 491-493: signal the caller's in-flight turn
AbortStart(a) ==
    /\ apc[a] = "idle"
    /\ IF a = 1 THEN TRUE ELSE apc[a - 1] # "idle"
    /\ \E u \in Users :
        /\ areq' = [areq EXCEPT ![a] = u]
        /\ msgId' = [msgId EXCEPT ![a] = AbortedMessageId(registry, u)]
        /\ signaled' = signaled \cup Replaced(registry, u)
    /\ apc' = [apc EXCEPT ![a] = "updateChat"]
    /\ UNCHANGED <<storeVars, registry, cfgVars, otherVars, procVars, ares>>

\* mutant of AbortWrite: without a signalled turn the newest row is written
AbortWriteLatest(a) ==
    /\ apc[a] = "updateChat"
    /\ chats' = updateChat(chats, IF msgId[a] = 0 THEN Len(chats) ELSE msgId[a],
                           AbortBody.text, AbortBody.messageId,
                           AbortBody.conversationId, NoUsage, FALSE, <<>>)
    /\ apc' = [apc EXCEPT ![a] = "done"]
    /\ ares' = [ares EXCEPT ![a] = "Success"]
    /\ UNCHANGED <<usages, regVars, cfgVars, otherVars, procVars, areq, msgId>>

\* lines 494-499: write the closing text into the signalled turn
AbortWrite(a) ==
    /\ apc[a] = "updateChat"
    /\ chats' = updateChat(chats, msgId[a], AbortBody.text, AbortBody.messageId,
                           AbortBody.conversationId, NoUsage, FALSE, <<>>)
    /\ apc' = [apc EXCEPT ![a] = "done"]
    /\ ares' = [ares EXCEPT ![a] = "Success"]
    /\ UNCHANGED <<usages, regVars, cfgVars, otherVars, procVars, areq, msgId>>

Next ==
    \/ \E p \in Procs : Start(p)
    \/ \E p \in Procs : GetMessage(p)
    \/ \E p \in Procs : NoKey(p)
    \/ \E p \in Procs : NoMessage(p)
    \/ \E p \in Procs : CallBackend(p)
    \/ \E p \in Procs : Partial(p)
    \/ \E p \in Procs : Success(p)
    \/ \E p \in Procs : Throw(p)
    \/ \E p \in Procs : Fail(p)
    \/ \E p \in Procs : UpdateChat(p)
    \/ \E p \in Procs : InsertUsage(p)
    \/ \E a \in Aborts : AbortStart(a)
    \/ \E a \in Aborts : AbortWrite(a)

Spec == Init /\ [][Next]_vars

(* ---------------------------------------------------------------------- *)
(* One streaming request followed by /chat-abort requests                  *)
(* ---------------------------------------------------------------------- *)
\* the state after construction, with a handler slot for every abort request
InitIdle ==
    /\ chats = <<OldChat>>
    /\ usages = <<>>
    /\ registry = {}
    /\ signaled = {}
    /\ \E d \in Deployments : apiKeys = d.apiKeys /\ auditConfig = d.auditConfig
    /\ pc = [p \in Procs |-> "idle"]
    /\ req = [p \in Procs |-> NoReq]
    /\ room = [p \in Procs |-> FALSE]
    /\ systemMessage = [p \in Procs |-> Undefined]
    /\ message = [p \in Procs |-> NullChat]
    /\ key = [p \in Procs |-> Undefined]
    /\ called = [p \in Procs |-> NoCall]
    /\ emitted = [p \in Procs |-> 0]
    /\ firstChunk = [p \in Procs |-> TRUE]
    /\ lastResponse = [p \in Procs |-> NoResponse]
    /\ result = [p \in Procs |-> NoResult]
    /\ out = [p \in Procs |-> <<>>]
    /\ ended = [p \in Procs |-> FALSE]
    /\ audited = [p \in Procs |-> "none"]
    /\ updated = [p \in Procs |-> 0]
    /\ apc = [a \in IdleAborts |-> "idle"]
    /\ areq = [a \in IdleAborts |-> Undefined]
    /\ msgId = [a \in IdleAborts |-> 0]
    /\ ares = [a \in IdleAborts |-> "none"]
    /\ HistoryIdle
    /\ ChatIdle
    /\ LoginIdle

\* the first /chat-process request alone, and every /chat-abort request
NextIdle ==
    \/ Start(1)
    \/ GetMessage(1)
    \/ NoKey(1)
    \/ NoMessage(1)
    \/ CallBackend(1)
    \/ Partial(1)
    \/ Success(1)
    \/ Throw(1)
    \/ Fail(1)
    \/ UpdateChat(1)
    \/ InsertUsage(1)
    \/ \E a \in IdleAborts : AbortStart(a)
    \/ \E a \in IdleAborts : AbortWrite(a)

SpecIdle == InitIdle /\ [][NextIdle]_vars

(* ---------------------------------------------------------------------- *)
(* One streaming request over a store whose writes may fail                *)
(* ---------------------------------------------------------------------- *)
\* the first /chat-process request, the /chat-abort requests, and store failures
NextFault ==
    \/ Start(1)
    \/ GetMessage(1)
    \/ NoKey(1)
    \/ NoMessage(1)
    \/ CallBackend(1)
    \/ Partial(1)
    \/ Success(1)
    \/ Throw(1)
    \/ Fail(1)
    \/ UpdateChat(1)
    \/ UpdateChatFails(1)
    \/ InsertUsage(1)
    \/ InsertUsageFails(1)
    \/ \E a \in Aborts : AbortStart(a)
    \/ \E a \in Aborts : AbortWrite(a)

SpecFault == Init /\ [][NextFault]_vars

(* ---------------------------------------------------------------------- *)
(* /chat-response-history                                                  *)
(* ---------------------------------------------------------------------- *)
\* lines 239-242: the answer for a room the caller does not own
UnknownRoomHistory ==
    [status |-> "Success", data |-> "list", text |-> Undefined,
     responseCount |-> 0, parentMessageId |-> Undefined]

\* lines 244-285: the answer for row chat and query index
HistoryResponse(chat, index) ==
    IF ~chat.hasPrevious \/ Len(chat.previousResponse) < index
    THEN [status |-> "Fail", data |-> "list", text |-> Undefined,
          responseCount |-> 0, parentMessageId |-> Undefined]
    ELSE LET response == IF index >= Len(chat.previousResponse)
                         THEN [response |-> chat.response, options |-> chat.options]
                         ELSE chat.previousResponse[index + 1]
         IN  [status |-> "Success", data |-> "turn", text |-> response.response,
              responseCount |-> Len(chat.previousResponse) + 1,
              parentMessageId |-> response.options.messageId]

\* one /chat-response-history request
ChatResponseHistory ==
    /\ \E index \in 0..(MaxBranches + 1), known \in BOOLEAN :
        /\ hreq' = [index |-> index, roomKnown |-> known]
        /\ hres' = IF known THEN HistoryResponse(hchat, index) ELSE UnknownRoomHistory
    /\ UNCHANGED <<storeVars, regVars, cfgVars, procVars, abortVars, hchat, chatVars, loginVars>>

\* the store holds any turn of HistoryRows; nothing else has happened
InitHistory ==
    /\ ProcessIdle
    /\ hchat \in HistoryRows
    /\ hreq = NoHistoryReq
    /\ hres = NoHistoryRes
    /\ ChatIdle
    /\ LoginIdle

NextHistory == ChatResponseHistory

SpecHistory == InitHistory /\ [][NextHistory]_vars

(* ---------------------------------------------------------------------- *)
(* /chat                                                                   *)
(* ---------------------------------------------------------------------- *)
\* lines 347-362: the store after the update /chat issues for result d; the
\* call passes the usage as fourth argument and, for a regeneration, the
\* branch list as fifth, where updateChat takes the conversation id and the usage
ChatUpdate(cs, m, d) ==
    updateChat(cs, m.id, d.text, d.id, UsageAsConversationId(d.usage), NoUsage, FALSE, <<>>)

\* lines 339-377: one /chat request, from the turn read or insert to res.send
Chat ==
    /\ cserved < MaxChats
    /\ \E t \in Targets, i \in Uuids, g \in BOOLEAN, u \in {NoUsage, SomeUsage},
          top \in BOOLEAN, status \in {"Success", "Fail", "thrown"} :
        LET k == cserved + 1
            d == ChatResult(k, u)
            cs == IF g THEN chats ELSE insertChat(chats, i, BodyPrompt, t[2], BodyOptions)
            m == IF g THEN getChat(chats, t[2], i) ELSE cs[Len(cs)]
        IN  /\ creq' = [userId |-> t[1], roomId |-> t[2], uuid |-> i, regenerate |-> g,
                         status |-> status, data |-> d, topUsage |-> top]
            /\ cmessage' = m
            /\ cserved' = k
            /\ IF status # "Success"
               THEN \* line 372 sends the failure, or line 375 the thrown error
                    /\ chats' = cs
                    /\ UNCHANGED usages
                    /\ cres' = "Fail"
               ELSE IF m.id = 0
               THEN \* line 348 dereferences a null message
                    /\ chats' = cs
                    /\ UNCHANGED usages
                    /\ cres' = "Fail"
               ELSE /\ chats' = ChatUpdate(cs, m, d)
                    /\ usages' = IF top
                                 THEN insertChatUsage(usages, t[1], t[2], m.id, d.id, d.usage)
                                 ELSE usages
                    /\ cres' = "Success"
    /\ UNCHANGED <<regVars, cfgVars, procVars, abortVars, histVars, loginVars>>

\* the store of ProcessIdle and a sequence of /chat requests
InitChat ==
    /\ ProcessIdle
    /\ HistoryIdle
    /\ ChatIdle
    /\ LoginIdle

NextChat == Chat

SpecChat == InitChat /\ [][NextChat]_vars

(* ---------------------------------------------------------------------- *)
(* /user-register, /verify, /verifyadmin, /user-status, /user-login        *)
(* ---------------------------------------------------------------------- *)
\* what every account handler leaves alone
AccountFrame ==
    UNCHANGED <<storeVars, regVars, cfgVars, procVars, abortVars, histVars, chatVars, siteConfig>>

\* lines 506-559, with config.siteConfig.registerMails empty and the
\* verification mail delivered
UserRegister ==
    /\ \E name \in LoginNames, pw \in Passwords :
        LET ok == /\ siteConfig.registerEnabled
                  /\ isEmail(name)
                  /\ ~accounts[name].exists
        IN  /\ accounts' = IF ok THEN createUser(accounts, name, md5(pw), name = RootUser)
                           ELSE accounts
            /\ lreq' = [kind |-> "register", username |-> name, password |-> pw,
                         status |-> "none", response |-> IF ok THEN "Success" ELSE "Fail"]
    /\ UNCHANGED tokens
    /\ AccountFrame

\* lines 846-872: the link of the verification mail; checkUserVerify answers
\* the email a valid token was made for and throws on any other token
Verify ==
    /\ \E token \in LoginNames :
        LET ok == isEmail(token) /\ ~(accounts[token].exists /\ accounts[token].status = "Normal")
        IN  /\ accounts' = IF ok
                           THEN verifyUser(accounts, token,
                                    IF siteConfig.registerReview THEN "AdminVerify" ELSE "Normal")
                           ELSE accounts
            /\ lreq' = [kind |-> "verify", username |-> token, password |-> Undefined,
                         status |-> "none", response |-> IF ok THEN "Success" ELSE "Fail"]
    /\ UNCHANGED tokens
    /\ AccountFrame

\* lines 874-892: the link of the mail to the administrator
VerifyAdmin ==
    /\ \E token \in LoginNames :
        LET ok == isEmail(token) /\ ~(accounts[token].exists /\ accounts[token].status = "Normal")
        IN  /\ accounts' = IF ok THEN verifyUser(accounts, token, "Normal") ELSE accounts
            /\ lreq' = [kind |-> "verifyadmin", username |-> token, password |-> Undefined,
                         status |-> "none", response |-> IF ok THEN "Success" ELSE "Fail"]
    /\ UNCHANGED tokens
    /\ AccountFrame

\* lines 821-833: an administrator sets the status of an account
UserStatus ==
    /\ \E name \in Emails, status \in UserStatuses :
        /\ accounts' = verifyUser(accounts, name, status)
        /\ lreq' = [kind |-> "status", username |-> name, password |-> Undefined,
                     status |-> status,
                     response |-> IF accounts[name].exists THEN "Success" ELSE "Fail"]
    /\ UNCHANGED tokens
    /\ AccountFrame

\* mutant of UserLogin: the status of the account is not looked at
UserLoginAnyStatus ==
    /\ \E name \in LoginNames, pw \in Passwords :
        LET ok == /\ isEmail(name)
                  /\ accounts[name].exists
                  /\ accounts[name].password = md5(pw)
        IN  /\ tokens' = IF ok THEN tokens \cup {name} ELSE tokens
            /\ lreq' = [kind |-> "login", username |-> name, password |-> pw,
                         status |-> "none", response |-> IF ok THEN "Success" ELSE "Fail"]
    /\ UNCHANGED accounts
    /\ AccountFrame

\* lines 708-738
UserLogin ==
    /\ \E name \in LoginNames, pw \in Passwords :
        LET ok == /\ isEmail(name)
                  /\ accounts[name].exists
                  /\ accounts[name].password = md5(pw)
                  /\ accounts[name].status # "PreVerify"
                  /\ accounts[name].status # "AdminVerify"
                  /\ accounts[name].status = "Normal"
        IN  /\ tokens' = IF ok THEN tokens \cup {name} ELSE tokens
            /\ lreq' = [kind |-> "login", username |-> name, password |-> pw,
                         status |-> "none", response |-> IF ok THEN "Success" ELSE "Fail"]
    /\ UNCHANGED accounts
    /\ AccountFrame

\* an empty account store under any registration policy
InitLogin ==
    /\ ProcessIdle
    /\ HistoryIdle
    /\ ChatIdle
    /\ accounts = [e \in Emails |-> NoAccount]
    /\ siteConfig \in [registerEnabled : BOOLEAN, registerReview : BOOLEAN]
    /\ tokens = {}
    /\ lreq = NoLoginReq

NextLogin ==
    \/ UserRegister
    \/ Verify
    \/ VerifyAdmin
    \/ UserStatus
    \/ UserLogin

SpecLogin == InitLogin /\ [][NextLogin]_vars

(* ---------------------------------------------------------------------- *)
(* Properties                                                              *)
(* ---------------------------------------------------------------------- *)
\* the row with the given _id
Row(cs, id) == cs[id]

\* handler p has just completed its updateChat call
Wrote(p) == pc[p] = "updateChat" /\ pc'[p] # "updateChat"

\* handler p ended in the catch block of the credential lookup
EndedWithoutKey(p) ==
    /\ pc[p] = "done"
    /\ Len(out[p]) = 1
    /\ out[p][1].text = "No available configuration"

\* C1: the cancellation registry holds at most one entry per user; an entry
\* belongs to a streaming turn of that user, and a streaming turn whose entry
\* was replaced by a later turn of the same user has been signalled.
C1_OneEntryPerUser ==
    /\ \A u \in Users : Cardinality({e \in registry : e.userId = u}) <= 1
    /\ \A e \in registry :
        /\ pc[e.handle] = "streaming"
        /\ req[e.handle].userId = e.userId
        /\ e.messageId = message[e.handle].id
    /\ \A p \in Procs :
        (pc[p] = "streaming" /\ ~(\E e \in registry : e.handle = p)) => p \in signaled

\* C1 witness: a second turn of a user registered while the first still streams
C1_Witness ==
    \E p, q \in Procs :
        /\ p # q
        /\ pc[p] = "streaming" /\ pc[q] = "streaming"
        /\ req[p].userId = req[q].userId
        /\ p \in signaled
        /\ \E e \in registry : e.handle = q

\* the row the finalize write of p leaves when it is the only write to the row p read
FinalizeAlone(p) ==
    LET d == result[p].data
        m == message[p]
    IN  IF req[p].regenerate /\ m.options.messageId # Undefined
        THEN [m EXCEPT !.response = d.text, !.options.messageId = d.id,
                       !.options.conversationId = d.conversationId, !.options.usage = d.usage,
                       !.previousResponse = Append(@, [response |-> m.response,
                                                       options |-> m.options])]
        ELSE [m EXCEPT !.response = d.text, !.options.messageId = d.id,
                       !.options.conversationId = d.conversationId, !.options.usage = d.usage]

\* the row the abort write leaves when it is the only write to the row p read
AbortAlone(p) ==
    [message[p] EXCEPT !.response = AbortBody.text, !.options.messageId = AbortBody.messageId,
                       !.options.conversationId = AbortBody.conversationId,
                       !.options.usage = NoUsage]

\* C2: once the finalize write of a turn and the abort write to the same turn
\* have both happened (and nothing else wrote the row), the row equals the row
\* one of the two writes alone would have left.
C2_RaceLeavesOneWrite ==
    \A p \in Procs, a \in Aborts :
        ( /\ updated[p] = 1
          /\ apc[a] = "done"
          /\ message[p].id # 0
          /\ msgId[a] = message[p].id
          /\ \A q \in Procs \ {p} : message[q].id # message[p].id
          /\ \A b \in Aborts \ {a} : msgId[b] # message[p].id )
        => Row(chats, message[p].id) \in {FinalizeAlone(p), AbortAlone(p)}

\* the branch entry a regeneration by p is to append
BranchOf(p) == [response |-> message[p].response, options |-> message[p].options]

C4_InvalidRoomNoSideEffects ==
    \A p \in Procs :
        (pc[p] # "idle" /\ ~RoomFound(req[p].userId, req[p].roomId))
        => /\ message[p].id = 0
           /\ key[p] = Undefined
           /\ ~called[p].invoked
           /\ updated[p] = 0

\* C5: a request that failed for want of an eligible credential created no turn
\* row when it is not a regeneration, and wrote nothing to the row when it is.
C5_NoCredentialLeavesNoRow ==
    \A p \in Procs :
        EndedWithoutKey(p)
        => IF req[p].regenerate THEN updated[p] = 0 ELSE message[p].id = 0

\* C6: a request of a caller without an eligible credential never invokes the
\* backend, with no credential at all, and ends with an error chunk.
C6_NoCredentialNoBackend ==
    \A p \in Procs :
        /\ called[p].invoked
            => \E k \in apiKeys :
                /\ k.key = called[p].key
                /\ k.enabled
                /\ ChatModel(req[p].userId) \in k.chatModels
                /\ k.userRoles \cap Roles(req[p].userId) # {}
        /\ (pc[p] \in {"streaming", "updateChat", "insertChatUsage", "done"}
                /\ ~(\E k \in apiKeys :
                        /\ k.enabled
                        /\ ChatModel(req[p].userId) \in k.chatModels
                        /\ k.userRoles \cap Roles(req[p].userId) # {}))
            => /\ pc[p] = "done"
               /\ ~called[p].invoked
               /\ key[p] = Undefined
               /\ ended[p]
               /\ Len(out[p]) = 1
               /\ out[p][1].kind \in {"error", "send"}

\* C6 witness: a request ended in the catch block because no credential was eligible
C6_Witness == \E p \in Procs : EndedWithoutKey(p) /\ ~called[p].invoked

\* C7: when the audit policy is enabled and the audit predicate answers true
\* for a caller who is no admin, the request ends with no turn row, no
\* credential, no backend call and no finalization; the sensitive-content
\* failure is sent to no admin caller and under no disabled policy.
C7_SensitiveNoPersistence ==
    \A p \in Procs :
        /\ audited[p] = "hit"
            => /\ pc[p] = "done"
               /\ ended[p]
               /\ message[p].id = 0
               /\ key[p] = Undefined
               /\ ~called[p].invoked
               /\ result[p].status = "none"
               /\ updated[p] = 0
        /\ (\E i \in 1..Len(out[p]) : out[p][i].kind = "send")
            <=> audited[p] = "hit"
        /\ audited[p] # "none"
            => /\ auditConfig.enabled \/ auditConfig.customizeEnabled
               /\ "Admin" \notin Roles(req[p].userId)
        /\ \A i \in 1..Len(chats) :
            chats[i].id = 1 \/ \E q \in Procs : audited[q] # "hit" /\ message[q].id = chats[i].id
        /\ \A i \in 1..Len(usages) :
            \E q \in Procs : audited[q] # "hit" /\ message[q].id = usages[i].chatId

\* C7 witness: under an enabled policy one prompt was refused and an admin's
\* request went on to the credential lookup without being audited
C7_Witness ==
    \E p, q \in Procs :
        /\ audited[p] = "hit" /\ pc[p] = "done"
        /\ "Admin" \in Roles(req[q].userId)
        /\ audited[q] = "none"
        /\ pc[q] = "getKey"

\* the last partial event the backend delivered to p
LastSeen(p) == PartialEvent(p, emitted[p])

C9_TerminalMessageBeforeClose ==
    \A p \in Procs :
        pc[p] \in {"rejected", "updateChat", "insertChatUsage", "done"}
        => /\ ended[p]
           /\ out[p] # <<>>
           /\ out[p][Len(out[p])].kind \in {"final", "error", "send", "null"}

AbortWritesTo(p) ==
    {a \in Aborts : /\ apc[a] = "done"
                    /\ msgId[a] # 0
                    /\ msgId[a] = message[p].id
                    /\ areq[a] = req[p].userId}

\* C11: a turn attempt that invoked the backend and has ended, with no abort
\* request pending and no other request holding its row, has had exactly one
\* terminal update of its row, finalize writes and abort writes counted together.
C11_ExactlyOneTerminalWrite ==
    \A p \in Procs :
        ( /\ pc[p] = "done"
          /\ called[p].invoked
          /\ \A a \in Aborts : apc[a] # "updateChat"
          /\ \A q \in Procs \ {p} : message[q].id # message[p].id )
        => updated[p] + Cardinality(AbortWritesTo(p)) = 1

\* user u has a turn in flight
InFlight(u) == \E e \in registry : e.userId = u

\* abort handler a has just asked the registry to signal its caller's turn
Signalled(a) == apc[a] = "idle" /\ apc'[a] = "updateChat"

\* abort handler a has just completed its updateChat call
AbortWrote(a) == apc[a] = "updateChat" /\ apc'[a] = "done"

C13_AbortWritesCancelledTurn ==
    /\ [](\A a \in Aborts :
            msgId[a] # 0
            => \E p \in Procs :
                /\ req[p].userId = areq[a]
                /\ message[p].id = msgId[a]
                /\ called[p].invoked
                /\ p \in signaled)
    /\ [][\A a \in Aborts :
            /\ (Signalled(a) /\ InFlight(areq'[a]))
                => \E e \in registry :
                    /\ e.userId = areq'[a]
                    /\ msgId'[a] = e.messageId
                    /\ e.handle \in signaled'
            /\ (AbortWrote(a) /\ msgId[a] # 0)
                => /\ Len(chats') = Len(chats)
                   /\ \A i \in 1..Len(chats) : i # msgId[a] => chats'[i] = chats[i]
                   /\ Row(chats', msgId[a]) =
                        [Row(chats, msgId[a]) EXCEPT
                            !.response = AbortBody.text,
                            !.options.messageId = AbortBody.messageId,
                            !.options.conversationId = AbortBody.conversationId,
                            !.options.usage = NoUsage]
                   /\ usages' = usages]_vars
    /\ [](\A p \in Procs, a \in Aborts :
            ( /\ apc[a] = "done"
              /\ msgId[a] # 0
              /\ msgId[a] = message[p].id
              /\ areq[a] = req[p].userId
              /\ pc[p] = "done"
              /\ emitted[p] = 0
              /\ \A q \in Procs \ {p} : message[q].id # message[p].id )
            => /\ Row(chats, message[p].id).response = AbortBody.text
               /\ Row(chats, message[p].id).options.messageId = AbortBody.messageId
               /\ Row(chats, message[p].id).options.conversationId = AbortBody.conversationId
               /\ Row(chats, message[p].id).options.usage = NoUsage
               /\ updated[p] = 0)

\* C13 witness: a new turn was aborted before its first backend event, the
\* stream ended and the abort write landed
C13_Witness ==
    \E p \in Procs, a \in Aborts :
        /\ ~req[p].regenerate
        /\ pc[p] = "done"
        /\ emitted[p] = 0
        /\ p \in signaled
        /\ apc[a] = "done"
        /\ msgId[a] = message[p].id
        /\ Row(chats, message[p].id).response = AbortBody.text

\* the partial chunks among the chunks written to a connection
PartialChunks(o) == {i \in 1..Len(o) : o[i].kind = "partial"}

\* sequence s is a prefix of sequence t
IsPrefix(s, t) == Len(s) <= Len(t) /\ \A i \in 1..Len(s) : s[i] = t[i]

C15_BranchListOnlyGrows ==
    [][/\ \A i \in 1..Len(chats) :
            IsPrefix(chats[i].previousResponse, chats'[i].previousResponse)
       /\ \A p \in Procs :
            (Wrote(p) /\ ~req[p].regenerate)
            => /\ Row(chats', message[p].id).previousResponse
                    = Row(chats, message[p].id).previousResponse
               /\ (\A q \in Procs \ {p} : message[q].id # message[p].id)
                    => Row(chats', message[p].id).previousResponse = <<>>]_vars

\* the chunks of a connection that end a stream
TerminalChunks(o) == {i \in 1..Len(o) : o[i].kind \in {"final", "error", "send"}}

\* C16: what is written to a connection is newline-delimited: every chunk
\* after the first starts with a newline; the partial
\* chunks come first, one per backend event and in the backend's order; and a
\* closed connection holds exactly one terminal chunk, its last, the complete
\* result after a success and an error chunk otherwise.
C16_NewlineDelimitedStream ==
    \A p \in Procs :
        /\ \A i \in 2..Len(out[p]) : out[p][i].nl
        /\ PartialChunks(out[p]) = 1..emitted[p]
        /\ \A i \in PartialChunks(out[p]) : out[p][i].text = PartialEvent(p, i).text
        /\ ended[p]
            => /\ TerminalChunks(out[p]) = {Len(out[p])}
               /\ out[p][Len(out[p])].kind = "final" <=> result[p].status = "Success"

\* request p asked to regenerate a turn the store does not hold
TurnNotFound(p) ==
    /\ req[p].regenerate
    /\ message[p].id = 0
    /\ \/ pc[p] = "getKey"
       \/ /\ pc[p] = "done"
          /\ audited[p] # "hit"
          /\ out[p][1].text # "lookup failed"

\* C17: a regenerate request whose turn does not exist ends in the catch block
\* with one error chunk and a closed connection; it never invokes the backend,
\* registers no cancellation entry, performs no update and inserts no usage
\* row, and no row of the store was created by a regenerate request.
C17_MissingTurnFails ==
    /\ [](\A p \in Procs :
            /\ (req[p].regenerate /\ message[p].id = 0)
                => /\ pc[p] \in {"getChat", "getKey", "done", "rejected"}
                   /\ ~called[p].invoked
                   /\ result[p].status = "none"
                   /\ updated[p] = 0
                   /\ ~(\E e \in registry : e.handle = p)
            /\ (TurnNotFound(p) /\ pc[p] = "done")
                => /\ ended[p]
                   /\ Len(out[p]) = 1
                   /\ out[p][1].kind = "error")
    /\ [](\A i \in 2..Len(chats) :
            \E q \in Procs : ~req[q].regenerate /\ message[q].id = i)
    /\ [](\A i \in 1..Len(usages) : usages[i].chatId # 0)
    /\ [][\A p \in Procs :
            (TurnNotFound(p) /\ pc[p] = "getKey" /\ pc'[p] # "getKey")
            => /\ pc'[p] = "done"
               /\ chats' = chats
               /\ usages' = usages
               /\ registry' = registry]_vars

\* C17 witness: a regeneration in the caller's own room found no turn and
\* ended with the error chunk of the catch block
C17_Witness ==
    \E p \in Procs :
        /\ TurnNotFound(p)
        /\ RoomFound(req[p].userId, req[p].roomId)
        /\ pc[p] = "done"
        /\ out[p][1].text = "Cannot read properties of null"

\* the row of the new turn of request p is in the store as it was posted
Persisted(p) ==
    /\ message[p].id \in 1..Len(chats)
    /\ Row(chats, message[p].id).id = message[p].id
    /\ Row(chats, message[p].id).prompt = req[p].prompt
    /\ Row(chats, message[p].id).roomId = req[p].roomId
    /\ Row(chats, message[p].id).uuid = req[p].uuid
    /\ Row(chats, message[p].id).options.parentMessageId = BodyOptions.parentMessageId

\* C18: a request that is no regeneration has its turn row in the store, with
\* the prompt and the call options, while it has neither invoked the backend
\* nor registered a cancellation entry; the row is there whenever the backend
\* has been invoked, and every cancellation entry carries the id of a row of
\* the store.
C18_RowBeforeBackend ==
    /\ \A p \in Procs :
        /\ (~req[p].regenerate /\ pc[p] = "getKey")
            => /\ Persisted(p)
               /\ ~called[p].invoked
               /\ ~(\E e \in registry : e.handle = p)
        /\ (~req[p].regenerate /\ called[p].invoked)
            => /\ Persisted(p)
               /\ called[p].messageId = message[p].id
    /\ \A e \in registry :
        /\ e.messageId \in 1..Len(chats)
        /\ Row(chats, e.messageId).id = e.messageId

\* C18 witness: a new turn is streaming, registered under the id of its row
C18_Witness ==
    \E p \in Procs :
        /\ ~req[p].regenerate
        /\ pc[p] = "streaming"
        /\ message[p].id > 1
        /\ \E e \in registry : e.handle = p /\ e.messageId = message[p].id

\* C19: the step that ends the stream of a request removes from the registry
\* the entry that holds this request's handle and no other entry; a streaming
\* request that was not signalled keeps its entry; and an abort request
\* signals the turn whose entry its caller holds and obtains that turn's id.
C19_StaleFinalizerKeepsNewerEntry ==
    /\ [][\A p \in Procs :
            (pc[p] = "streaming" /\ pc'[p] # "streaming")
            => /\ registry' = {e \in registry : e.handle # p}
               /\ signaled' = signaled]_vars
    /\ [](\A q \in Procs :
            (pc[q] = "streaming" /\ q \notin signaled)
            => \E e \in registry :
                /\ e.handle = q
                /\ e.userId = req[q].userId
                /\ e.messageId = message[q].id)
    /\ [][\A a \in Aborts :
            Signalled(a)
            => \A e \in registry :
                e.userId = areq'[a]
                => /\ msgId'[a] = e.messageId
                   /\ e.handle \in signaled']_vars

\* C19 witness: the older of two turns of one user has ended after it was
\* replaced, and an abort request has signalled the newer turn and holds its id
C19_Witness ==
    \E p, q \in Procs, a \in Aborts :
        /\ p < q
        /\ req[p].userId = req[q].userId
        /\ message[p].id # message[q].id
        /\ p \in signaled /\ pc[p] = "done"
        /\ pc[q] = "streaming" /\ q \in signaled
        /\ areq[a] = req[q].userId
        /\ msgId[a] = message[q].id

\* the usage rows that carry the backend message id of the stream of request p
UsageRowsOf(p) == {i \in 1..Len(usages) : usages[i].messageId = FinalResult(p, NoUsage).id}

\* C20: a request has at most one usage row; the row exists only after the
\* terminal update and only when the result carries usage, and it links the
\* caller, the room, the turn row and the result's backend message id; a
\* finished request has the row exactly when its persisted result carried
\* usage; usage rows are only appended, and no abort request inserts one.
C20_UsageRowIffUsage ==
    /\ [](\A p \in Procs :
            /\ Cardinality(UsageRowsOf(p)) <= 1
            /\ \A i \in UsageRowsOf(p) :
                /\ updated[p] = 1
                /\ result[p].data.usage.present
                /\ usages[i] = [userId |-> req[p].userId, roomId |-> req[p].roomId,
                                chatId |-> message[p].id, messageId |-> result[p].data.id,
                                usage |-> result[p].data.usage]
            /\ pc[p] = "done"
                => (UsageRowsOf(p) # {}
                        <=> (updated[p] = 1 /\ result[p].data.usage.present)))
    /\ [](\A i \in 1..Len(usages) : \E p \in Procs : i \in UsageRowsOf(p))
    /\ [][/\ IsPrefix(usages, usages')
          /\ \A a \in Aborts : apc'[a] # apc[a] => usages' = usages]_vars

\* C20 witness: one finished request has its usage row, another was persisted
\* from a partial event after a failure and has none
C20_Witness ==
    \E p, q \in Procs :
        /\ pc[p] = "done" /\ UsageRowsOf(p) # {}
        /\ pc[q] = "done" /\ updated[q] = 1 /\ result[q].status = "thrown"
        /\ UsageRowsOf(q) = {}

\* C21: a request whose finalization met a store failure has closed its
\* connection after a terminal chunk, and the failure was reported to the
\* caller: the connection holds an error chunk that carries the store's error.
C21_StoreFailureReported ==
    \A p \in Procs :
        pc[p] = "logged"
        => /\ ended[p]
           /\ TerminalChunks(out[p]) # {}
           /\ \E i \in 1..Len(out[p]) :
                out[p][i].kind = "error" /\ out[p][i].text = StoreMessage

\* the fields of a turn row that no write may change
Identity(c) == <<c.id, c.roomId, c.uuid, c.prompt, c.options.parentMessageId>>

\* C22: no step removes a turn row or changes the id, room, sequence id,
\* prompt or call options of one; a finalize write changes no row but the one
\* the request holds, and an abort write no row but the one it was given.
C22_WritesKeepIdentity ==
    [][/\ Len(chats') >= Len(chats)
       /\ \A i \in 1..Len(chats) : Identity(chats'[i]) = Identity(chats[i])
       /\ \A p \in Procs :
            Wrote(p) => /\ Len(chats') = Len(chats)
                        /\ \A i \in 1..Len(chats) :
                            i # message[p].id => chats'[i] = chats[i]
       /\ \A a \in Aborts :
            AbortWrote(a) => /\ Len(chats') = Len(chats)
                             /\ \A i \in 1..Len(chats) :
                                 i # msgId[a] => chats'[i] = chats[i]]_vars

\* C22 witness: the store holds two rows; a request has finalized the newer
\* one and an abort write has landed on it
C22_Witness ==
    \E p \in Procs, a \in Aborts :
        /\ Len(chats) >= 2
        /\ message[p].id = 2
        /\ updated[p] = 1
        /\ apc[a] = "done"
        /\ msgId[a] = 2

\* C24: the system message the backend was invoked with is the room's prompt
\* when the caller's room exists and its prompt is not empty, and the system
\* message of the request body otherwise.
C24_RoomPromptOverrides ==
    \A p \in Procs :
        called[p].invoked
        => LET u == req[p].userId
               r == req[p].roomId
           IN  IF r \in DOMAIN Rooms /\ Rooms[r].userId = u /\ Rooms[r].prompt # ""
               THEN called[p].systemMessage = Rooms[r].prompt
               ELSE called[p].systemMessage = BodySystemMessage

\* C24 witness: one request was served with its room's prompt and another,
\* whose room has an empty prompt, with the caller's system message
C24_Witness ==
    \E p, q \in Procs :
        /\ called[p].invoked /\ called[p].systemMessage = "room-prompt"
        /\ called[q].invoked /\ called[q].systemMessage = BodySystemMessage
        /\ RoomFound(req[q].userId, req[q].roomId)

\* the responses of a turn row: the branch entries and the primary response
Retained(c) ==
    {c.previousResponse[i].response : i \in 1..Len(c.previousResponse)} \cup {c.response}

\* C26: when no abort request was made and every request has ended, every
\* response that the finalize write of a regeneration stored together with a
\* backend message id, on a turn that only regenerations have written, is the
\* primary response of the turn's row or an entry of its branch list, and so
\* is the response the turn held before the regenerations.
C26_NoPersistedResponseLost ==
    ( /\ \A a \in Aborts : apc[a] = "idle"
      /\ \A p \in Procs : pc[p] = "done" )
    => \A p \in Procs :
        ( /\ req[p].regenerate
          /\ updated[p] = 1
          /\ result[p].data.id # Undefined
          /\ \A q \in Procs : message[q].id = message[p].id => req[q].regenerate )
        => /\ result[p].data.text \in Retained(Row(chats, message[p].id))
           /\ message[p].response \in Retained(Row(chats, message[p].id))

\* C23: a served response-history lookup with index i on a turn with n branch
\* entries answers the i-th oldest entry for i < n and the turn's primary
\* response for i = n, both with response count n + 1, and fails for i > n;
\* a turn that was never regenerated has n = 0.
C23_HistoryIndexing ==
    (hres.status # "none" /\ hreq.roomKnown)
    => LET n == Len(hchat.previousResponse)
           i == hreq.index
       IN  /\ i < n => /\ hres.status = "Success"
                       /\ hres.text = hchat.previousResponse[i + 1].response
                       /\ hres.responseCount = n + 1
           /\ i = n => /\ hres.status = "Success"
                       /\ hres.text = hchat.response
                       /\ hres.responseCount = n + 1
           /\ i > n => hres.status = "Fail"

\* the row the finalize write of /chat-process leaves for row m, regenerate
\* flag g and successful result d
StreamedRow(m, g, d) ==
    [m EXCEPT !.response = d.text,
              !.options.messageId = d.id,
              !.options.conversationId = d.conversationId,
              !.options.usage = d.usage,
              !.previousResponse = IF KeepsBranch(g, m) THEN PushPrevious(m) ELSE @]

\* the usage rows that carry the backend message id of the k-th /chat request
ChatUsageRows(k) == {i \in 1..Len(usages) : usages[i].messageId = ChatResult(k, NoUsage).id}

\* C25: after a /chat request that the backend answered with success, the
\* turn row equals the row the finalize write of /chat-process leaves for the
\* same row read, regenerate flag and result, and the request has inserted a
\* usage row exactly when the result carries usage.
C25_ChatMatchesChatProcess ==
    cres = "Success"
    => /\ Row(chats, cmessage.id) = StreamedRow(cmessage, creq.regenerate, creq.data)
       /\ ChatUsageRows(cserved) # {} <=> creq.data.usage.present

\* C27: a step issues a login token only in answer to a login request whose
\* account exists, holds the status Normal and the digest of the supplied
\* password; a login request is answered with success only then; no token is
\* issued otherwise; and under registration review a verification request
\* changes an account only by giving a not yet Normal account the status AdminVerify.
C27_TokenOnlyForNormal ==
    [][/\ \A u \in Emails :
            (u \in tokens' /\ u \notin tokens)
            => /\ lreq'.kind = "login"
               /\ lreq'.username = u
               /\ lreq'.response = "Success"
               /\ accounts[u].exists
               /\ accounts[u].status = "Normal"
               /\ accounts[u].password = md5(lreq'.password)
       /\ (lreq'.kind = "login" /\ lreq'.response = "Success")
            => /\ lreq'.username \in Emails
               /\ accounts[lreq'.username].status = "Normal"
               /\ accounts[lreq'.username].password = md5(lreq'.password)
               /\ lreq'.username \in tokens'
       /\ lreq'.kind # "login" => tokens' = tokens
       /\ (lreq'.kind = "verify" /\ siteConfig.registerReview)
            => \A u \in Emails :
                accounts'[u] # accounts[u]
                => /\ accounts[u].status # "Normal"
                   /\ accounts'[u] = [accounts[u] EXCEPT !.status = "AdminVerify"]]_vars

\* C27 witness: under registration review an account that registered holds a
\* token after a successful login, and the other account is still unverified
C27_Witness ==
    /\ siteConfig.registerReview
    /\ "a@x.io" \in tokens
    /\ lreq.kind = "login" /\ lreq.username = "a@x.io" /\ lreq.response = "Success"
    /\ accounts["a@x.io"].status = "Normal"

====
